---- MODULE Spec2Model ----
(***************************************************************************)
(* Model of src/resources/invoices.ts: the RazorInvoices resource binding. *)
(* Every public method is one action: it validates its arguments, and      *)
(* either rejects the returned promise locally or hands the promise of one *)
(* transport call (api.get / api.post / api.patch) back to the caller; an  *)
(* argument that cannot be destructured or converted makes it throw.       *)
(*                                                                         *)
(* JavaScript values are tagged records [t |-> tag, v |-> payload].        *)
(* Strings are sequences of one-character strings, so that template        *)
(* literals, Number() parsing and String() conversion are computed.        *)
(***************************************************************************)
EXTENDS Integers, Sequences, FiniteSets, TLC

\* ------------------------------------------------------------------ bounds
\* Longest line_items array of an enumerated draft.
MaxItems == 2
\* Numeric count / skip inputs range over -MaxNum .. MaxNum.
MaxNum == 2
\* Number of invocations that may be in flight together (concurrent model).
NumInvocations == 2

\* ------------------------------------------------------------- JS values
Undef == [t |-> "undefined"]
Null == [t |-> "null"]
NaN == [t |-> "nan"]
Num(n) == [t |-> "number", v |-> n]
Str(s) == [t |-> "string", v |-> s]
Arr(s) == [t |-> "array", v |-> s]
Obj(o) == [t |-> "object", v |-> o]
Bool(b) == [t |-> "boolean", v |-> b]
\* A string literal that is only ever passed along whole (a rejection message).
StrLit(s) == [t |-> "string", lit |-> s]
\* Marks a property that an enumerated object does not carry at all.
Absent == [t |-> "absent"]

\* An object literal: the properties of f that are not Absent.
ObjOf(f) == [k \in {x \in DOMAIN f : f[x] # Absent} |-> f[k]]

\* Property read / destructuring: a missing property reads as undefined.
Get(o, k) == IF k \in DOMAIN o THEN o[k] ELSE Undef

\* Object spread { ...a, ...b }: the properties of b win over those of a.
Spread(a, b) == [k \in (DOMAIN a) \cup (DOMAIN b) |-> IF k \in DOMAIN b THEN b[k] ELSE a[k]]

\* A number that is no integer of Num's range: m / 10^e, with m no multiple
\* of 10; e > 0 for a fraction, e < 0 for an integer m * 10^(-e) too large
\* for Num (12, -30 is 1.2e+31).
Dec(m, e) == [t |-> "decimal", m |-> m, e |-> e]
\* +Infinity (sign 1) and -Infinity (sign -1).
Inf(sign) == [t |-> "infinity", sign |-> sign]

\* An exception thrown while an expression is evaluated.
TypeError == [t |-> "error", name |-> "TypeError"]
Thrown(error) == [t |-> "throw", error |-> error]

\* ToBoolean, as applied by '!x', 'if (x)' and 'x || y'.
Truthy(x) ==
    CASE x.t = "undefined" -> FALSE
      [] x.t = "null" -> FALSE
      [] x.t = "nan" -> FALSE
      [] x.t = "number" -> x.v # 0
      [] x.t = "string" -> Len(x.v) > 0
      [] x.t = "boolean" -> x.v
      [] OTHER -> TRUE

Digits == <<"0", "1", "2", "3", "4", "5", "6", "7", "8", "9">>
IsDigit(c) == \E d \in 1..10 : Digits[d] = c
DigitVal(c) == (CHOOSE d \in 1..10 : Digits[d] = c) - 1

LowerHex == <<"0", "1", "2", "3", "4", "5", "6", "7", "8", "9", "a", "b", "c", "d", "e", "f">>
UpperHex == <<"0", "1", "2", "3", "4", "5", "6", "7", "8", "9", "A", "B", "C", "D", "E", "F">>
IsHexDigit(c) == \E d \in 1..16 : LowerHex[d] = c \/ UpperHex[d] = c
HexVal(c) == (CHOOSE d \in 1..16 : LowerHex[d] = c \/ UpperHex[d] = c) - 1

\* StrWhiteSpaceChar of ECMAScript: white space and line terminators. A
\* character is a one-element string; the characters that a string of this
\* module cannot spell are written as a token naming their code point.
WhiteSpaceChars ==
    {" ", "\t", "\n", "\r", "\f", "<U+000B>", "<U+00A0>", "<U+FEFF>", "<U+2028>", "<U+2029>",
     "<U+1680>", "<U+2000>", "<U+2001>", "<U+2002>", "<U+2003>", "<U+2004>", "<U+2005>",
     "<U+2006>", "<U+2007>", "<U+2008>", "<U+2009>", "<U+200A>", "<U+202F>", "<U+205F>",
     "<U+3000>"}
IsSpace(c) == c \in WhiteSpaceChars

RECURSIVE TrimLeft(_)
TrimLeft(s) == IF Len(s) > 0 /\ IsSpace(Head(s)) THEN TrimLeft(Tail(s)) ELSE s
RECURSIVE TrimRight(_)
TrimRight(s) ==
    IF Len(s) > 0 /\ IsSpace(s[Len(s)]) THEN TrimRight(SubSeq(s, 1, Len(s) - 1)) ELSE s

RECURSIVE DigitsValue(_)
DigitsValue(s) ==
    IF Len(s) = 0 THEN 0 ELSE 10 * DigitsValue(SubSeq(s, 1, Len(s) - 1)) + DigitVal(s[Len(s)])

AllDigits(s) == Len(s) > 0 /\ \A i \in 1..Len(s) : IsDigit(s[i])
DigitsOrNone(s) == \A i \in 1..Len(s) : IsDigit(s[i])

RECURSIVE StripLeadingZeros(_)
StripLeadingZeros(s) == IF Len(s) > 0 /\ Head(s) = "0" THEN StripLeadingZeros(Tail(s)) ELSE s
RECURSIVE StripTrailingZeros(_)
StripTrailingZeros(s) ==
    IF Len(s) > 0 /\ s[Len(s)] = "0" THEN StripTrailingZeros(SubSeq(s, 1, Len(s) - 1)) ELSE s

\* The order of the decimal fractions 0.a and 0.b: -1, 0 or 1.
RECURSIVE DigitsCompare(_, _)
DigitsCompare(a, b) ==
    IF Len(a) = 0 /\ Len(b) = 0 THEN 0
    ELSE LET x == IF Len(a) = 0 THEN 0 ELSE DigitVal(Head(a))
             y == IF Len(b) = 0 THEN 0 ELSE DigitVal(Head(b))
         IN IF x < y THEN -1
            ELSE IF x > y THEN 1
            ELSE DigitsCompare(IF Len(a) = 0 THEN a ELSE Tail(a), IF Len(b) = 0 THEN b ELSE Tail(b))

\* The numbers of the code are IEEE 754 doubles. This module holds a number
\* by its decimal digits, which a double keeps (Number::toString prints them
\* back) for up to 15 digits; it holds mantissas up to MaxIntDigits. A
\* number it cannot hold has no value here: evaluating NoValue fails.
NoValue == CHOOSE v \in {} : TRUE
MaxIntDigits == <<"2", "1", "4", "7", "4", "8", "3", "6", "4", "7">>
FitsInt(sig) == Len(sig) < 10 \/ (Len(sig) = 10 /\ DigitsCompare(sig, MaxIntDigits) <= 0)

\* The first 20 digits of three bounds of the doubles, each d.ddd...:
\* 2^-1075 (e-324), half the least double: up to it a literal rounds to 0;
\* 3 * 2^-1075 (e-324): up to it a literal above 2^-1075 rounds to the least
\* double 2^-1074, which prints as 5e-324, and beyond it to 2^-1073, 1e-323;
\* 2^1024 - 2^970 (e+308): from it on a literal rounds to Infinity.
HalfMinDigits == <<"2", "4", "7", "0", "3", "2", "8", "2", "2", "9",
                   "2", "0", "6", "2", "3", "2", "7", "2", "0", "8">>
MinAndHalfDigits == <<"7", "4", "1", "0", "9", "8", "4", "6", "8", "7",
                      "6", "1", "8", "6", "9", "8", "1", "6", "2", "6">>
OverflowDigits == <<"1", "7", "9", "7", "6", "9", "3", "1", "3", "4",
                    "8", "6", "2", "3", "1", "5", "8", "0", "7", "9">>

\* Where 0.sig lies with respect to a bound whose first digits are given: -1
\* below, 1 above; a literal sharing all those digits is not decided here.
AgainstBound(sig, bound) ==
    LET c == DigitsCompare(SubSeq(sig, 1, IF Len(sig) < Len(bound) THEN Len(sig) ELSE Len(bound)), bound)
    IN IF c = 0 THEN NoValue ELSE c

\* The value of a run of digits in base 2, 8 or 16.
RECURSIVE RadixValue(_, _)
RadixValue(s, base) ==
    IF Len(s) = 0 THEN 0 ELSE base * RadixValue(SubSeq(s, 1, Len(s) - 1), base) + HexVal(s[Len(s)])
AllRadixDigits(s, base) ==
    Len(s) > 0 /\ \A i \in 1..Len(s) : IsHexDigit(s[i]) /\ HexVal(s[i]) < base

\* A 0x / 0o / 0b literal with the digits s: its value, which this module
\* holds below 2^31; NaN when s is empty or has another character.
RadixNumber(s, base) ==
    LET ds == StripLeadingZeros(s)
        width == CASE base = 16 -> 8 [] base = 8 -> 11 [] base = 2 -> 32
        top == CASE base = 16 -> 7 [] base = 8 -> 1 [] base = 2 -> 0
    IN IF ~AllRadixDigits(s, base) THEN NaN
       ELSE IF Len(ds) < width \/ (Len(ds) = width /\ HexVal(ds[1]) <= top)
       THEN Num(RadixValue(ds, base))
       ELSE NoValue

RECURSIVE Pow10(_)
Pow10(k) == IF k = 0 THEN 1 ELSE 10 * Pow10(k - 1)

\* The double nearest to sign * 0.sig * 10^(p + 1), where sig is a run of
\* digits with no zero at either end: p is the exponent of its first digit
\* and e that of its last. Literals beyond the largest double are Infinity
\* and literals up to half the least double are 0 (-0 is held as 0); the two
\* least doubles are held by the digits they print as; elsewhere the literal
\* is held by its own digits, which the double keeps when the place of the
\* last digit is 10^-323 or above.
MkNumber(sign, sig, e) ==
    LET k == Len(sig)
        p == k - 1 + e
    IN IF p > 308 \/ (p = 308 /\ AgainstBound(sig, OverflowDigits) > 0) THEN Inf(sign)
       ELSE IF p < -324 \/ (p = -324 /\ AgainstBound(sig, HalfMinDigits) < 0) THEN Num(0)
       ELSE IF p = -324
       THEN IF AgainstBound(sig, MinAndHalfDigits) < 0 THEN Dec(sign * 5, 324) ELSE Dec(sign, 323)
       ELSE IF e < -323 \/ ~FitsInt(sig) THEN NoValue
       ELSE LET m == DigitsValue(sig) IN
            IF e >= 0 /\ (k + e < 10 \/ (k + e = 10 /\ m <= 2147483647 \div Pow10(e)))
            THEN Num(sign * m * Pow10(e))
            ELSE Dec(sign * m, 0 - e)

\* The first position of s holding one of the characters cs, or 0.
FirstOf(s, cs) ==
    IF \E i \in 1..Len(s) : s[i] \in cs
    THEN CHOOSE i \in 1..Len(s) : s[i] \in cs /\ \A j \in 1..(i - 1) : s[j] \notin cs
    ELSE 0

\* The value of the digits of an exponent. Beyond 7 digits it is held as
\* 10^7: the literal is 0 or Infinity either way.
ExponentValue(s) ==
    LET ds == StripLeadingZeros(s) IN IF Len(ds) > 7 THEN 10000000 ELSE DigitsValue(ds)

\* An optionally signed run of digits, as in an exponent; NaN when it is none.
SignedInteger(s) ==
    IF AllDigits(s) THEN Num(ExponentValue(s))
    ELSE IF Len(s) > 0 /\ Head(s) = "-" /\ AllDigits(Tail(s)) THEN Num(0 - ExponentValue(Tail(s)))
    ELSE IF Len(s) > 0 /\ Head(s) = "+" /\ AllDigits(Tail(s)) THEN Num(ExponentValue(Tail(s)))
    ELSE NaN

\* StrUnsignedDecimalLiteral: Infinity, or digits with an optional fraction
\* (digits on at least one side of the dot) and an optional exponent.
UnsignedDecimal(sign, u) ==
    IF u = <<"I", "n", "f", "i", "n", "i", "t", "y">> THEN Inf(sign)
    ELSE LET ePos == FirstOf(u, {"e", "E"})
             mant == IF ePos = 0 THEN u ELSE SubSeq(u, 1, ePos - 1)
             exp == IF ePos = 0 THEN Num(0) ELSE SignedInteger(SubSeq(u, ePos + 1, Len(u)))
             dot == FirstOf(mant, {"."})
             int == IF dot = 0 THEN mant ELSE SubSeq(mant, 1, dot - 1)
             frac == IF dot = 0 THEN <<>> ELSE SubSeq(mant, dot + 1, Len(mant))
             digits == StripLeadingZeros(int \o frac)
             sig == StripTrailingZeros(digits)
         IN IF exp = NaN \/ ~DigitsOrNone(int) \/ ~DigitsOrNone(frac) \/ Len(int) + Len(frac) = 0
            THEN NaN
            ELSE IF Len(sig) = 0 THEN Num(0)
            ELSE MkNumber(sign, sig, exp.v - Len(frac) + (Len(digits) - Len(sig)))

\* StringToNumber of ECMAScript: surrounding white space is dropped; the empty
\* string is 0; an unsigned 0x / 0o / 0b literal is its value; an optionally
\* signed decimal literal is the double nearest to it; everything else is NaN.
StringToNumber(s) ==
    LET u == TrimRight(TrimLeft(s)) IN
    IF Len(u) = 0 THEN Num(0)
    ELSE IF Len(u) >= 2 /\ u[1] = "0" /\ u[2] \in {"x", "X"} THEN RadixNumber(SubSeq(u, 3, Len(u)), 16)
    ELSE IF Len(u) >= 2 /\ u[1] = "0" /\ u[2] \in {"o", "O"} THEN RadixNumber(SubSeq(u, 3, Len(u)), 8)
    ELSE IF Len(u) >= 2 /\ u[1] = "0" /\ u[2] \in {"b", "B"} THEN RadixNumber(SubSeq(u, 3, Len(u)), 2)
    ELSE IF Head(u) = "-" THEN UnsignedDecimal(-1, Tail(u))
    ELSE IF Head(u) = "+" THEN UnsignedDecimal(1, Tail(u))
    ELSE UnsignedDecimal(1, u)

RECURSIVE NatToString(_)
NatToString(n) ==
    IF n < 10 THEN <<Digits[n + 1]>> ELSE NatToString(n \div 10) \o <<Digits[(n % 10) + 1]>>

\* Number::toString of m / 10^e (m > 0), with k digits and n the position of
\* the decimal point among them: the digits and zeros for k <= n <= 21, the
\* digits around a dot for 0 < n <= 21, "0." and zeros before the digits for
\* -6 < n <= 0, and exponent notation elsewhere.
DecimalString(m, e) ==
    LET ds == NatToString(m)
        k == Len(ds)
        n == k - e
    IN IF k <= n /\ n <= 21 THEN ds \o [j \in 1..(n - k) |-> "0"]
       ELSE IF 0 < n /\ n <= 21 THEN SubSeq(ds, 1, n) \o <<".">> \o SubSeq(ds, n + 1, k)
       ELSE IF -6 < n /\ n <= 0 THEN <<"0", ".">> \o [j \in 1..(0 - n) |-> "0"] \o ds
       ELSE <<ds[1]>> \o (IF k > 1 THEN <<".">> \o Tail(ds) ELSE <<>>)
                \o (IF n > 0 THEN <<"e", "+">> \o NatToString(n - 1)
                    ELSE <<"e", "-">> \o NatToString(1 - n))

\* String(x), as applied to a template literal's substitutions: the string,
\* or the exception thrown. An array is its elements joined by commas, null
\* and undefined elements being empty. An object is converted by its
\* toString method: the inherited one gives "[object Object]"; an own
\* 'toString' property (a property of this module holds data, no function)
\* is not callable and the inherited valueOf gives no primitive: TypeError.
RECURSIVE TemplateString(_)
RECURSIVE JoinElements(_)
JoinElements(xs) ==
    IF Len(xs) = 0 THEN Str(<<>>)
    ELSE LET h == IF Head(xs) \in {Undef, Null} THEN Str(<<>>) ELSE TemplateString(Head(xs))
             r == JoinElements(Tail(xs))
         IN IF h.t = "throw" THEN h
            ELSE IF Len(xs) = 1 THEN h
            ELSE IF r.t = "throw" THEN r
            ELSE Str(h.v \o <<",">> \o r.v)
TemplateString(x) ==
    CASE x.t = "undefined" -> Str(<<"u", "n", "d", "e", "f", "i", "n", "e", "d">>)
      [] x.t = "null" -> Str(<<"n", "u", "l", "l">>)
      [] x.t = "nan" -> Str(<<"N", "a", "N">>)
      [] x.t = "number" -> Str(IF x.v < 0 THEN <<"-">> \o NatToString(0 - x.v) ELSE NatToString(x.v))
      [] x.t = "decimal" ->
            Str(IF x.m < 0 THEN <<"-">> \o DecimalString(0 - x.m, x.e) ELSE DecimalString(x.m, x.e))
      [] x.t = "infinity" ->
            Str((IF x.sign < 0 THEN <<"-">> ELSE <<>>) \o <<"I", "n", "f", "i", "n", "i", "t", "y">>)
      [] x.t = "string" -> x
      [] x.t = "boolean" -> Str(IF x.v THEN <<"t", "r", "u", "e">> ELSE <<"f", "a", "l", "s", "e">>)
      [] x.t = "array" -> JoinElements(x.v)
      [] x.t = "object" ->
            IF "toString" \in DOMAIN x.v THEN Thrown(TypeError)
            ELSE Str(<<"[", "o", "b", "j", "e", "c", "t", " ", "O", "b", "j", "e", "c", "t", "]">>)

\* A template literal: its pieces, literal text and substitutions alike, are
\* converted from left to right and concatenated; the first exception ends it.
RECURSIVE Template(_)
Template(pieces) ==
    IF Len(pieces) = 0 THEN Str(<<>>)
    ELSE LET h == TemplateString(Head(pieces))
             r == Template(Tail(pieces))
         IN IF h.t = "throw" THEN h
            ELSE IF r.t = "throw" THEN r
            ELSE Str(h.v \o r.v)

\* Number(x): the number, or the exception thrown. An array or an object is
\* converted through its string (the inherited valueOf gives no primitive).
ToNumber(x) ==
    CASE x.t = "undefined" -> NaN
      [] x.t = "null" -> Num(0)
      [] x.t = "number" -> x
      [] x.t = "decimal" -> x
      [] x.t = "infinity" -> x
      [] x.t = "nan" -> NaN
      [] x.t = "string" -> StringToNumber(x.v)
      [] x.t = "boolean" -> IF x.v THEN Num(1) ELSE Num(0)
      [] x.t \in {"array", "object"} ->
            LET s == TemplateString(x) IN IF s.t = "throw" THEN s ELSE StringToNumber(s.v)

\* x || y
OrElse(x, y) == IF Truthy(x) THEN x ELSE y

\* ------------------------------------------------------- resource base
\* super(razor, '/invoices'): the sub-path every URL of the resource starts with.
resourceUrl == <<"/", "i", "n", "v", "o", "i", "c", "e", "s">>

\* The two error values of the resource base class.
MISSING_ID_ERROR == [t |-> "error", name |-> "MISSING_ID_ERROR"]
FIELD_MANDATORY_ERROR(field) == [t |-> "error", name |-> "FIELD_MANDATORY_ERROR", field |-> field]

\* What a method does before it returns: the transport calls it makes, in
\* order, and then either the promise it returns, which is rejected on the
\* spot or is the promise of one of those transport calls, or the exception
\* it throws instead of returning.
Reject(reason) == [calls |-> <<>>, ret |-> [kind |-> "rejected", reason |-> reason]]
ReturnApi(method, request) ==
    [calls |-> <<[method |-> method, request |-> request]>>, ret |-> [kind |-> "transport", of |-> 1]]
Throw(error) == [calls |-> <<>>, ret |-> [kind |-> "thrown", error |-> error]]

\* ------------------------------------------------------------ normalizer
\* Days from 1970-01-01 to the civil date y-m-d.
DaysFromCivil(y, m, d) ==
    LET yy == IF m <= 2 THEN y - 1 ELSE y
        era == yy \div 400
        yoe == yy - era * 400
        mp == IF m > 2 THEN m - 3 ELSE m + 9
        doy == (153 * mp + 2) \div 5 + d - 1
        doe == yoe * 365 + yoe \div 4 - yoe \div 100 + doy
    IN era * 146097 + doe - 719468

\* Seconds since the epoch of a "YYYY-MM-DD" string; NaN for any other string.
getDateInSecs(s) ==
    IF /\ Len(s) = 10
       /\ s[5] = "-" /\ s[8] = "-"
       /\ AllDigits(SubSeq(s, 1, 4)) /\ AllDigits(SubSeq(s, 6, 7)) /\ AllDigits(SubSeq(s, 9, 10))
    THEN Num(86400 * DaysFromCivil(DigitsValue(SubSeq(s, 1, 4)), DigitsValue(SubSeq(s, 6, 7)),
                                   DigitsValue(SubSeq(s, 9, 10))))
    ELSE NaN

\* normalizeDate of ../helper: a number is already a timestamp, a date string
\* becomes its epoch seconds.
normalizeDate(date) ==
    CASE date.t \in {"number", "decimal", "infinity"} -> date
      [] date.t = "string" -> getDateInSecs(date.v)
      [] OTHER -> NaN

\* -------------------------------------------------------------- methods
\* The rejection messages of create, with the source's backquotes written as '.
NoCustomerMessage == StrLit("Ether 'customer_id' or 'customer' must be provided but found none.")
NoItemNameMessage == StrLit("Ether 'item_id' or 'name' must be provided but found none.")
NoItemAmountMessage == StrLit("Ether 'item_id' or 'amount' must be provided but found none.")

\* The property k of a value that is neither undefined nor null, as read by
\* destructuring: a value that is no object has none of the properties read.
Prop(x, k) == IF x.t = "object" THEN Get(x.v, k) ELSE Undef

\* x?.length of a truthy x.
LengthOf(x) ==
    CASE x.t \in {"array", "string"} -> Num(Len(x.v))
      [] x.t = "object" -> Get(x.v, "length")
      [] OTHER -> Undef

\* What 'for ... of x' iterates: the elements of an array, the characters of
\* a string; no other value of this module is iterable.
Iterable(x) == x.t \in {"array", "string"}
Elements(x) == IF x.t = "array" THEN x.v ELSE [j \in 1..Len(x.v) |-> Str(<<x.v[j]>>)]

\* createLoop with the two checks of an item exchanged.
RECURSIVE createLoop_amountFirst(_, _)
createLoop_amountFirst(items, params) ==
    IF Len(items) = 0
    THEN ReturnApi("POST", [url |-> resourceUrl,
                            data |-> Obj(Spread([type |-> Str(<<"i", "n", "v", "o", "i", "c", "e">>)], params))])
    ELSE IF Head(items) \in {Undef, Null} THEN Throw(TypeError)
    ELSE LET item_id == Prop(Head(items), "item_id")
             name == Prop(Head(items), "name")
             amount == Prop(Head(items), "amount")
         IN IF ~Truthy(item_id) /\ ~Truthy(amount)
            THEN Reject(NoItemAmountMessage)
            ELSE IF ~Truthy(item_id) /\ ~Truthy(name)
            THEN Reject(NoItemNameMessage)
            ELSE createLoop_amountFirst(Tail(items), params)

\* createLoop with the payload built as { ...params, type: 'invoice' }.
RECURSIVE createLoop_typeLast(_, _)
createLoop_typeLast(items, params) ==
    IF Len(items) = 0
    THEN ReturnApi("POST", [url |-> resourceUrl,
                            data |-> Obj(Spread(params, [type |-> Str(<<"i", "n", "v", "o", "i", "c", "e">>)]))])
    ELSE IF Head(items) \in {Undef, Null} THEN Throw(TypeError)
    ELSE LET item_id == Prop(Head(items), "item_id")
             name == Prop(Head(items), "name")
             amount == Prop(Head(items), "amount")
         IN IF ~Truthy(item_id) /\ ~Truthy(name)
            THEN Reject(NoItemNameMessage)
            ELSE IF ~Truthy(item_id) /\ ~Truthy(amount)
            THEN Reject(NoItemAmountMessage)
            ELSE createLoop_typeLast(Tail(items), params)

\* The body of 'for (const { item_id, name, amount } of line_items)' followed
\* by the POST: the first offending item rejects, no offending item posts.
\* Destructuring an item that is undefined or null throws.
RECURSIVE createLoop(_, _)
createLoop(items, params) ==
    IF Len(items) = 0
    THEN ReturnApi("POST", [url |-> resourceUrl,
                            data |-> Obj(Spread([type |-> Str(<<"i", "n", "v", "o", "i", "c", "e">>)], params))])
    ELSE IF Head(items) \in {Undef, Null} THEN Throw(TypeError)
    ELSE LET item_id == Prop(Head(items), "item_id")
             name == Prop(Head(items), "name")
             amount == Prop(Head(items), "amount")
         IN IF ~Truthy(item_id) /\ ~Truthy(name)
            THEN Reject(NoItemNameMessage)
            ELSE IF ~Truthy(item_id) /\ ~Truthy(amount)
            THEN Reject(NoItemAmountMessage)
            ELSE createLoop(Tail(items), params)

\* create without its customer check.
create_skipCustomerCheck(params) ==
    IF params \in {Undef, Null} THEN Throw(TypeError)
    ELSE LET line_items == Prop(params, "line_items")
         IN IF ~Truthy(line_items) \/ LengthOf(line_items) = Num(0)
            THEN Reject(FIELD_MANDATORY_ERROR("line_items"))
            ELSE IF ~Iterable(line_items) THEN Throw(TypeError)
            ELSE createLoop(Elements(line_items), params.v)

\* create demanding exactly one of customer_id and customer.
create_exactlyOne(params) ==
    IF params \in {Undef, Null} THEN Throw(TypeError)
    ELSE LET line_items == Prop(params, "line_items")
             customer_id == Prop(params, "customer_id")
             customer == Prop(params, "customer")
         IN IF Truthy(customer_id) = Truthy(customer)
            THEN Reject(NoCustomerMessage)
            ELSE IF ~Truthy(line_items) \/ LengthOf(line_items) = Num(0)
            THEN Reject(FIELD_MANDATORY_ERROR("line_items"))
            ELSE IF ~Iterable(line_items) THEN Throw(TypeError)
            ELSE createLoop(Elements(line_items), params.v)

\* create(params: IRazorInvoice). Destructuring params throws when it is
\* undefined or null; 'for ... of' throws when line_items is not iterable.
create(params) ==
    IF params \in {Undef, Null} THEN Throw(TypeError)
    ELSE LET line_items == Prop(params, "line_items")
             customer_id == Prop(params, "customer_id")
             customer == Prop(params, "customer")
         IN IF ~Truthy(customer_id) /\ ~Truthy(customer)
            THEN Reject(NoCustomerMessage)
            ELSE IF ~Truthy(line_items) \/ LengthOf(line_items) = Num(0)
            THEN Reject(FIELD_MANDATORY_ERROR("line_items"))
            ELSE IF ~Iterable(line_items) THEN Throw(TypeError)
            ELSE createLoop(Elements(line_items), params.v)

\* The properties of the argument of fetchAll: those of {} when it is
\* undefined (the default) or a number or boolean, which has none.
QueryProps(q) ==
    CASE q.t = "object" -> q.v
      [] q.t \in {"undefined", "number", "decimal", "infinity", "nan", "boolean"} -> [k \in {} |-> Undef]

\* fetchAll with 'count = count || 10': the Number() coercion of count left out.
fetchAll_rawCount(q) ==
    IF q = Null THEN Throw(TypeError)
    ELSE LET query == QueryProps(q)
             from0 == Get(query, "from")
             to0 == Get(query, "to")
             from == IF Truthy(from0) THEN normalizeDate(from0) ELSE from0
             to == IF Truthy(to0) THEN normalizeDate(to0) ELSE to0
             count == Get(query, "count")
             skip == ToNumber(Get(query, "skip"))
         IN IF skip.t = "throw" THEN Throw(skip.error)
            ELSE ReturnApi("GET", [url |-> resourceUrl,
                                   data |-> Obj(Spread(query, [from |-> from, to |-> to,
                                                               count |-> OrElse(count, Num(10)),
                                                               skip |-> OrElse(skip, Num(0))]))])

\* fetchAll with 'skip = Number(skip)': the default of skip left out.
fetchAll_noSkipDefault(q) ==
    IF q = Null THEN Throw(TypeError)
    ELSE LET query == QueryProps(q)
             from0 == Get(query, "from")
             to0 == Get(query, "to")
             from == IF Truthy(from0) THEN normalizeDate(from0) ELSE from0
             to == IF Truthy(to0) THEN normalizeDate(to0) ELSE to0
             count == ToNumber(Get(query, "count"))
             skip == ToNumber(Get(query, "skip"))
         IN IF count.t = "throw" THEN Throw(count.error)
            ELSE IF skip.t = "throw" THEN Throw(skip.error)
            ELSE ReturnApi("GET", [url |-> resourceUrl,
                                   data |-> Obj(Spread(query, [from |-> from, to |-> to,
                                                               count |-> OrElse(count, Num(10)),
                                                               skip |-> skip]))])

\* fetchAll(query: IRazorInvoiceQuery = {}). Destructuring null throws, and
\* so does Number() of a count or skip that has no primitive value.
fetchAll(q) ==
    IF q = Null THEN Throw(TypeError)
    ELSE LET query == QueryProps(q)
             from0 == Get(query, "from")
             to0 == Get(query, "to")
             from == IF Truthy(from0) THEN normalizeDate(from0) ELSE from0
             to == IF Truthy(to0) THEN normalizeDate(to0) ELSE to0
             count == ToNumber(Get(query, "count"))
             skip == ToNumber(Get(query, "skip"))
         IN IF count.t = "throw" THEN Throw(count.error)
            ELSE IF skip.t = "throw" THEN Throw(skip.error)
            ELSE ReturnApi("GET", [url |-> resourceUrl,
                                   data |-> Obj(Spread(query, [from |-> from, to |-> to,
                                                               count |-> OrElse(count, Num(10)),
                                                               skip |-> OrElse(skip, Num(0))]))])

\* fetch testing 'invoiceId === undefined' instead of '!invoiceId'.
fetch_undefinedOnly(invoiceId) ==
    LET url == Template(<<Str(resourceUrl), Str(<<"/">>), invoiceId>>)
    IN IF invoiceId = Undef THEN Reject(MISSING_ID_ERROR)
       ELSE IF url.t = "throw" THEN Throw(url.error)
       ELSE ReturnApi("GET", [url |-> url.v])

\* fetch making its GET twice and returning the second promise.
fetch_twice(invoiceId) ==
    LET url == Template(<<Str(resourceUrl), Str(<<"/">>), invoiceId>>)
        get == [method |-> "GET", request |-> [url |-> url.v]]
    IN IF ~Truthy(invoiceId) THEN Reject(MISSING_ID_ERROR)
       ELSE IF url.t = "throw" THEN Throw(url.error)
       ELSE [calls |-> <<get, get>>, ret |-> [kind |-> "transport", of |-> 2]]

\* fetch(invoiceId: string)
fetch(invoiceId) ==
    LET url == Template(<<Str(resourceUrl), Str(<<"/">>), invoiceId>>)
    IN IF ~Truthy(invoiceId) THEN Reject(MISSING_ID_ERROR)
       ELSE IF url.t = "throw" THEN Throw(url.error)
       ELSE ReturnApi("GET", [url |-> url.v])

\* cancel(invoiceId: string)
cancel(invoiceId) ==
    LET url == Template(<<Str(resourceUrl), Str(<<"/">>), invoiceId, Str(<<"/", "c", "a", "n", "c", "e", "l">>)>>)
    IN IF ~Truthy(invoiceId) THEN Reject(MISSING_ID_ERROR)
       ELSE IF url.t = "throw" THEN Throw(url.error)
       ELSE ReturnApi("POST", [url |-> url.v])

\* edit testing params before invoiceId.
edit_paramsFirst(invoiceId, params) ==
    LET url == Template(<<Str(resourceUrl), Str(<<"/">>), invoiceId>>)
    IN IF ~Truthy(params) THEN Reject(FIELD_MANDATORY_ERROR("Params"))
       ELSE IF ~Truthy(invoiceId) THEN Reject(MISSING_ID_ERROR)
       ELSE IF url.t = "throw" THEN Throw(url.error)
       ELSE ReturnApi("PATCH", [url |-> url.v, data |-> params])

\* edit(invoiceId: string, params: IRazorInvoiceId)
edit(invoiceId, params) ==
    LET url == Template(<<Str(resourceUrl), Str(<<"/">>), invoiceId>>)
    IN IF ~Truthy(invoiceId) THEN Reject(MISSING_ID_ERROR)
       ELSE IF ~Truthy(params) THEN Reject(FIELD_MANDATORY_ERROR("Params"))
       ELSE IF url.t = "throw" THEN Throw(url.error)
       ELSE ReturnApi("PATCH", [url |-> url.v, data |-> params])

\* notify(invoiceId: string, medium: 'sms' | 'email')
notify(invoiceId, medium) ==
    LET url == Template(<<Str(resourceUrl), Str(<<"/">>), invoiceId,
                          Str(<<"/", "n", "o", "t", "i", "f", "y", "_", "b", "y", "/">>), medium>>)
    IN IF ~Truthy(invoiceId) THEN Reject(MISSING_ID_ERROR)
       ELSE IF url.t = "throw" THEN Throw(url.error)
       ELSE ReturnApi("POST", [url |-> url.v])

\* ------------------------------------------------------------------ state
\* One entry per invocation of a method of the binding.
VARIABLES
    pc,        \* "idle" (not called yet), "pending" (awaiting the transport), "settled",
               \* or "thrown" (the method threw: its caller holds no promise)
    call,      \* the method invoked and its arguments
    awaits,    \* index in requests of the transport call whose promise was returned, or 0
    outcome,   \* how the promise returned to the caller settled, or what was thrown
    requests,  \* every call made on the transport, in order
    replies    \* how the transport settled each of them

vars == <<pc, call, awaits, outcome, requests, replies>>

NoCall == [op |-> "none", args |-> <<>>]
NoOutcome == [status |-> "none"]
NoReply == [status |-> "none"]
Resolved(value) == [status |-> "resolved", value |-> value]
Rejected(reason) == [status |-> "rejected", value |-> reason]
Threw(error) == [status |-> "thrown", value |-> error]

\* ------------------------------------------------------------- inputs
inv_1 == <<"i", "n", "v", "_", "1">>
inv_2 == <<"i", "n", "v", "_", "2">>
sms == <<"s", "m", "s">>
email == <<"e", "m", "a", "i", "l">>
fax == <<"f", "a", "x">>
invoice == <<"i", "n", "v", "o", "i", "c", "e">>
link == <<"l", "i", "n", "k">>

LineItems ==
    {Obj(ObjOf([item_id |-> a, name |-> b, amount |-> c])) :
        a \in {Absent, Str(<<"i", "t", "_", "1">>)},
        b \in {Absent, Str(<<"p", "e", "n">>)},
        c \in {Absent, Num(0), Num(100)}}

LineItemSeqs == UNION {[1..n -> LineItems] : n \in 0..MaxItems}

\* Drafts given to create: each of customer_id, customer, line_items and an
\* extra field may be missing; line_items is an array when present.
Drafts ==
    {Obj(ObjOf([customer_id |-> a, customer |-> b, line_items |-> c, type |-> d])) :
        a \in {Absent, Str(<<>>), Str(<<"c", "u", "_", "1">>)},
        b \in {Absent, Null, Obj([name |-> Str(<<"A", "l">>)])},
        c \in {Absent} \cup {Arr(x) : x \in LineItemSeqs},
        d \in {Absent, Str(invoice), Str(link)}}

\* Values of count and skip: missing, null, strings that are and are not
\* numeric literals, among them one below the least double and one above the
\* largest, an array, a fraction and integers.
Counters ==
    {Absent, Null, Str(<<>>), Str(<<"a", "b", "c">>), Str(<<"-", "1">>), Str(<<" ", "5", " ">>),
     Str(<<"\t", "5", "\n">>), Str(<<"1", ".", "5">>), Str(<<"0", "x", "1", "0">>),
     Str(<<"1", "e", "1">>), Str(<<"1", "e", "-", "4", "0", "0">>), Str(<<"1", "e", "4", "0", "0">>),
     Arr(<<Num(7)>>), Dec(-5, 1)}
        \cup {Num(n) : n \in (0 - MaxNum)..MaxNum}

\* Queries given to fetchAll: none at all, or an object.
Queries ==
    {Undef} \cup
    {Obj(ObjOf([from |-> a, to |-> b, count |-> c, skip |-> d, type |-> e])) :
        a \in {Absent, Num(0), Num(86400), Str(<<"1", "9", "7", "0", "-", "0", "1", "-", "0", "3">>)},
        b \in {Absent, Num(172800)},
        c \in Counters,
        d \in Counters,
        e \in {Absent, Str(link)}}

\* An object that has no primitive value: its own toString is no function.
Unprintable == Obj([toString |-> Num(5)])

InvoiceIds == {Undef, Null, Str(<<>>), Str(inv_1), Str(inv_2), Bool(TRUE), Unprintable}
EditParams == {Undef, Null, Obj([description |-> Str(<<"x">>)])}
Mediums == {Str(sms), Str(email), Str(fax), Undef, Bool(TRUE), Unprintable}

\* What the transport may answer.
TransportError == [t |-> "error", name |-> "TransportError"]
TransportBodies == {Obj([id |-> Str(inv_1)]), Obj([success |-> Bool(TRUE)])}

\* The inputs of the concurrent specification: fewer of each, several callers.
ConcDrafts ==
    {Obj([line_items |-> Arr(<<Obj([item_id |-> Str(<<"i", "t", "_", "1">>)])>>)]),
     Obj([customer_id |-> Str(<<"c", "u", "_", "1">>),
          line_items |-> Arr(<<Obj([item_id |-> Str(<<"i", "t", "_", "1">>)])>>)])}
ConcQueries == {Undef}
ConcIds == {Undef, Str(inv_1), Str(inv_2)}
ConcEditParams == {Null, Obj([description |-> Str(<<"x">>)])}
ConcMediums == {Str(sms)}
ConcBodies == {Obj([id |-> Str(inv_1)])}

Callers == 1..NumInvocations

\* ----------------------------------------------------------------- actions
\* The effect of a method call by invocation i: the method's transport calls
\* are made in order, and the promise it returns is either already rejected
\* or the promise of one of those calls; a method that throws returns none.
Invoke(i, op, args, result) ==
    /\ call' = [call EXCEPT ![i] = [op |-> op, args |-> args]]
    /\ requests' = requests \o [k \in 1..Len(result.calls) |->
                                    [inv |-> i, method |-> result.calls[k].method,
                                     request |-> result.calls[k].request]]
    /\ replies' = replies \o [k \in 1..Len(result.calls) |-> NoReply]
    /\ IF result.ret.kind = "rejected"
       THEN /\ pc' = [pc EXCEPT ![i] = "settled"]
            /\ outcome' = [outcome EXCEPT ![i] = Rejected(result.ret.reason)]
            /\ awaits' = awaits
       ELSE IF result.ret.kind = "thrown"
       THEN /\ pc' = [pc EXCEPT ![i] = "thrown"]
            /\ outcome' = [outcome EXCEPT ![i] = Threw(result.ret.error)]
            /\ awaits' = awaits
       ELSE /\ pc' = [pc EXCEPT ![i] = "pending"]
            /\ awaits' = [awaits EXCEPT ![i] = Len(requests) + result.ret.of]
            /\ outcome' = outcome

Create(i, D) ==
    /\ pc[i] = "idle"
    /\ \E params \in D : Invoke(i, "create", <<params>>, create(params))

FetchAll(i, Q) ==
    /\ pc[i] = "idle"
    /\ \E query \in Q : Invoke(i, "fetchAll", <<query>>, fetchAll(query))

Fetch(i, I) ==
    /\ pc[i] = "idle"
    /\ \E invoiceId \in I : Invoke(i, "fetch", <<invoiceId>>, fetch(invoiceId))

Cancel(i, I) ==
    /\ pc[i] = "idle"
    /\ \E invoiceId \in I : Invoke(i, "cancel", <<invoiceId>>, cancel(invoiceId))

Edit(i, I, P) ==
    /\ pc[i] = "idle"
    /\ \E invoiceId \in I, params \in P : Invoke(i, "edit", <<invoiceId, params>>, edit(invoiceId, params))

Notify(i, I, M) ==
    /\ pc[i] = "idle"
    /\ \E invoiceId \in I, medium \in M : Invoke(i, "notify", <<invoiceId, medium>>, notify(invoiceId, medium))

\* The transport settles call k; the invocations holding its promise see
\* exactly that settlement.
Settle(k, reply) ==
    /\ k \in 1..Len(requests)
    /\ replies[k] = NoReply
    /\ replies' = [replies EXCEPT ![k] = reply]
    /\ pc' = [i \in DOMAIN pc |-> IF awaits[i] = k THEN "settled" ELSE pc[i]]
    /\ outcome' = [i \in DOMAIN outcome |-> IF awaits[i] = k THEN reply ELSE outcome[i]]
    /\ UNCHANGED <<call, awaits, requests>>

TransportResolve(B) == \E k \in 1..Len(requests), body \in B : Settle(k, Resolved(body))
TransportFail == \E k \in 1..Len(requests) : Settle(k, Rejected(TransportError))

\* ------------------------------------------------------ specifications
InitOf(I) ==
    /\ pc = [i \in I |-> "idle"]
    /\ call = [i \in I |-> NoCall]
    /\ awaits = [i \in I |-> 0]
    /\ outcome = [i \in I |-> NoOutcome]
    /\ requests = <<>>
    /\ replies = <<>>

\* One invocation, every input.
Init == InitOf({1})

Next ==
    \/ Create(1, Drafts)
    \/ FetchAll(1, Queries)
    \/ Fetch(1, InvoiceIds)
    \/ Cancel(1, InvoiceIds)
    \/ Edit(1, InvoiceIds, EditParams)
    \/ Notify(1, InvoiceIds, Mediums)
    \/ TransportResolve(TransportBodies)
    \/ TransportFail

Spec == Init /\ [][Next]_vars

\* Several invocations in flight together, fewer inputs.
InitConc == InitOf(Callers)

NextConc ==
    \/ \E i \in Callers : Create(i, ConcDrafts)
    \/ \E i \in Callers : FetchAll(i, ConcQueries)
    \/ \E i \in Callers : Fetch(i, ConcIds)
    \/ \E i \in Callers : Cancel(i, ConcIds)
    \/ \E i \in Callers : Edit(i, ConcIds, ConcEditParams)
    \/ \E i \in Callers : Notify(i, ConcIds, ConcMediums)
    \/ TransportResolve(ConcBodies)
    \/ TransportFail

SpecConc == InitConc /\ [][NextConc]_vars

\* ------------------------------------------------- vocabulary of the claims
Invocations == DOMAIN pc

\* The transport calls made on behalf of invocation i.
RequestsOf(i) == {k \in 1..Len(requests) : requests[k].inv = i}

\* Invocation i was rejected by the method itself, with no transport call.
LocallyRejected(i, reason) ==
    /\ pc[i] = "settled"
    /\ outcome[i] = Rejected(reason)
    /\ awaits[i] = 0
    /\ RequestsOf(i) = {}

\* Invocation i made exactly one transport call, this one, and holds its promise.
IssuedOnly(i, method, request) ==
    /\ pc[i] \in {"pending", "settled"}
    /\ Cardinality(RequestsOf(i)) = 1
    /\ awaits[i] \in RequestsOf(i)
    /\ requests[awaits[i]].method = method
    /\ requests[awaits[i]].request = request

\* The caller of i sees exactly the transport's settlement of its call.
OutcomeIsReply(i) ==
    /\ pc[i] = "pending" => outcome[i] = NoOutcome /\ replies[awaits[i]] = NoReply
    /\ pc[i] = "settled" => outcome[i] # NoOutcome /\ outcome[i] = replies[awaits[i]]

Falsy(x) == x \in {Undef, Null, Absent, Str(<<>>), Num(0), NaN, Bool(FALSE)}
NonEmptyString(x) == x.t = "string" /\ x # Str(<<>>)

DraftOf(i) == call[i].args[1].v
NoCustomer(d) == Falsy(Get(d, "customer_id")) /\ Falsy(Get(d, "customer"))
BothCustomers(d) == ~Falsy(Get(d, "customer_id")) /\ ~Falsy(Get(d, "customer"))
NoLineItems(d) == Falsy(Get(d, "line_items")) \/ Get(d, "line_items") = Arr(<<>>)
LacksName(item) == Falsy(Get(item.v, "item_id")) /\ Falsy(Get(item.v, "name"))
LacksAmount(item) == Falsy(Get(item.v, "item_id")) /\ Falsy(Get(item.v, "amount"))
Offending(items) == {k \in 1..Len(items) : LacksName(items[k]) \/ LacksAmount(items[k])}
Least(S) == CHOOSE k \in S : \A j \in S : k <= j
NoError == [t |-> "none"]

\* The error of the earliest failing check of create, in the documented order.
FirstCreateError(d) ==
    IF NoCustomer(d) THEN NoCustomerMessage
    ELSE IF NoLineItems(d) THEN FIELD_MANDATORY_ERROR("line_items")
    ELSE LET items == Get(d, "line_items").v IN
         IF Offending(items) = {} THEN NoError
         ELSE IF LacksName(items[Least(Offending(items))]) THEN NoItemNameMessage
         ELSE NoItemAmountMessage

\* The payload of a create request holds every field of the draft unchanged.
CarriesDraft(data, d) ==
    /\ data.t = "object"
    /\ DOMAIN data.v = DOMAIN d \cup {"type"}
    /\ \A k \in DOMAIN d : data.v[k] = d[k]

\* ---------------------------------------------------------------- claims

\* C1: a create whose draft has neither a truthy customer_id nor a truthy
\* customer is rejected with the customer-identity message, whatever its
\* line_items are, and no transport call is made for it.
C1_NoCustomerRejects ==
    \A i \in Invocations :
        call[i].op = "create" /\ NoCustomer(DraftOf(i)) => LocallyRejected(i, NoCustomerMessage)

\* C1 witness: a draft with an empty customer_id, a null customer and one
\* well-formed line item has been rejected.
C1_Witness ==
    \E i \in Invocations :
        /\ call[i].op = "create"
        /\ Get(DraftOf(i), "customer_id") = Str(<<>>)
        /\ Get(DraftOf(i), "customer") = Null
        /\ ~NoLineItems(DraftOf(i))
        /\ Offending(Get(DraftOf(i), "line_items").v) = {}
        /\ LocallyRejected(i, NoCustomerMessage)

\* C2 as stated: create passes the customer check only when exactly one of
\* customer_id and customer is truthy, so a draft with both is rejected with
\* the customer-identity message like a draft with neither.
C2_ExactlyOneCustomer ==
    \A i \in Invocations :
        call[i].op = "create" =>
            (outcome[i] # Rejected(NoCustomerMessage)
                <=> (~Falsy(Get(DraftOf(i), "customer_id")) # ~Falsy(Get(DraftOf(i), "customer"))))

\* C2 amended: create passes the customer check exactly when at least one of
\* customer_id and customer is truthy; a draft with both passes it, and only a
\* draft with neither is rejected with the customer-identity message, without
\* a transport call.
C2_AtLeastOneCustomer ==
    \A i \in Invocations :
        call[i].op = "create" =>
            /\ outcome[i] = Rejected(NoCustomerMessage) <=> NoCustomer(DraftOf(i))
            /\ NoCustomer(DraftOf(i)) => LocallyRejected(i, NoCustomerMessage)
            /\ BothCustomers(DraftOf(i)) /\ FirstCreateError(DraftOf(i)) = NoError
                   => Cardinality(RequestsOf(i)) = 1

\* C2 witness: a draft with both customer_id and customer went on to its POST.
C2_Witness ==
    \E i \in Invocations :
        /\ call[i].op = "create"
        /\ BothCustomers(DraftOf(i))
        /\ pc[i] = "pending"
        /\ requests[awaits[i]].method = "POST"

\* C3: create reports the first failing check only, in the order customer
\* identity, line_items missing or empty, then the items in sequence order
\* with the name check of an item before its amount check; no transport call
\* is made.
C3_FirstFailureOnly ==
    \A i \in Invocations :
        call[i].op = "create" /\ FirstCreateError(DraftOf(i)) # NoError
            => LocallyRejected(i, FirstCreateError(DraftOf(i)))

\* C3 witness: the first item fails the amount check only, the second fails
\* the name check, and the amount message of the first is what was reported.
C3_Witness ==
    \E i \in Invocations :
        /\ call[i].op = "create"
        /\ ~NoCustomer(DraftOf(i))
        /\ ~NoLineItems(DraftOf(i))
        /\ LET items == Get(DraftOf(i), "line_items").v
           IN /\ Len(items) = 2
              /\ ~LacksName(items[1]) /\ LacksAmount(items[1])
              /\ LacksName(items[2])
        /\ LocallyRejected(i, NoItemAmountMessage)

\* C4 as stated: a create that passes validation makes exactly one POST to the
\* base path whose payload holds every field of the draft unchanged and has
\* type equal to 'invoice', and its result is the transport's.
C4_TypeAlwaysInvoice ==
    \A i \in Invocations :
        call[i].op = "create" /\ FirstCreateError(DraftOf(i)) = NoError =>
            /\ Cardinality(RequestsOf(i)) = 1
            /\ awaits[i] \in RequestsOf(i)
            /\ requests[awaits[i]].method = "POST"
            /\ requests[awaits[i]].request.url = resourceUrl
            /\ CarriesDraft(requests[awaits[i]].request.data, DraftOf(i))
            /\ requests[awaits[i]].request.data.v.type = Str(invoice)
            /\ OutcomeIsReply(i)

\* C4 amended: a create that passes validation makes exactly one POST to the
\* base path whose payload holds every field of the draft unchanged, plus type
\* equal to 'invoice' when the draft has no type field of its own (a type the
\* draft carries is sent as given); its result is the transport's.
C4_PostsDraftWithType ==
    \A i \in Invocations :
        call[i].op = "create" /\ FirstCreateError(DraftOf(i)) = NoError =>
            /\ Cardinality(RequestsOf(i)) = 1
            /\ awaits[i] \in RequestsOf(i)
            /\ requests[awaits[i]].method = "POST"
            /\ requests[awaits[i]].request.url = resourceUrl
            /\ CarriesDraft(requests[awaits[i]].request.data, DraftOf(i))
            /\ "type" \notin DOMAIN DraftOf(i)
                   => requests[awaits[i]].request.data.v.type = Str(invoice)
            /\ OutcomeIsReply(i)

\* C4 witness: a valid draft without a type field was posted with type
\* 'invoice' and the caller got the body the transport resolved with.
C4_Witness ==
    \E i \in Invocations :
        /\ call[i].op = "create"
        /\ "type" \notin DOMAIN DraftOf(i)
        /\ pc[i] = "settled"
        /\ awaits[i] # 0
        /\ requests[awaits[i]].request.data.v.type = Str(invoice)
        /\ outcome[i] = Resolved(Obj([id |-> Str(inv_1)]))

\* The query object fetchAll works on: {} when it is called with none.
QueryOf(i) == IF call[i].args[1] = Undef THEN [k \in {} |-> Undef] ELSE call[i].args[1].v
\* The parameters of the GET that invocation i made.
SentData(i) == requests[awaits[i]].request.data.v
\* The numeric value of x, or the default d when x has none or it is zero.
NumericOr(x, d) == IF ToNumber(x) \in {NaN, Num(0)} THEN Num(d) ELSE ToNumber(x)
Paging == {"from", "to", "count", "skip"}

\* C5: fetchAll never rejects locally; it makes exactly one GET to the base
\* path whose parameters are the query with count replaced by its numeric
\* value, or 10 when absent, non-numeric or falsy, skip by its numeric value,
\* or 0, absent from/to left absent and every other field unchanged.
C5_FetchAllNormalizes ==
    \A i \in Invocations :
        call[i].op = "fetchAll" =>
            /\ Cardinality(RequestsOf(i)) = 1
            /\ awaits[i] \in RequestsOf(i)
            /\ requests[awaits[i]].method = "GET"
            /\ requests[awaits[i]].request.url = resourceUrl
            /\ OutcomeIsReply(i)
            /\ DOMAIN SentData(i) = DOMAIN QueryOf(i) \cup Paging
            /\ SentData(i).count = NumericOr(Get(QueryOf(i), "count"), 10)
            /\ SentData(i).skip = NumericOr(Get(QueryOf(i), "skip"), 0)
            /\ Get(QueryOf(i), "count") \in {Undef, Null, Str(<<>>), Str(<<"a", "b", "c">>), Num(0)}
                   => SentData(i).count = Num(10)
            /\ Get(QueryOf(i), "skip") \in {Undef, Null, Str(<<>>), Str(<<"a", "b", "c">>), Num(0)}
                   => SentData(i).skip = Num(0)
            /\ Get(QueryOf(i), "count") \in {Str(<<" ", "5", " ">>), Str(<<"\t", "5", "\n">>)}
                   => SentData(i).count = Num(5)
            /\ Get(QueryOf(i), "count") = Str(<<"0", "x", "1", "0">>) => SentData(i).count = Num(16)
            /\ Get(QueryOf(i), "skip") = Str(<<"1", "e", "1">>) => SentData(i).skip = Num(10)
            /\ Get(QueryOf(i), "skip") = Arr(<<Num(7)>>) => SentData(i).skip = Num(7)
            /\ Get(QueryOf(i), "skip") = Str(<<"1", ".", "5">>) => SentData(i).skip = Dec(15, 1)
            /\ Get(QueryOf(i), "count") = Str(<<"1", "e", "-", "4", "0", "0">>)
                   => SentData(i).count = Num(10)
            /\ Get(QueryOf(i), "skip") = Str(<<"1", "e", "4", "0", "0">>) => SentData(i).skip = Inf(1)
            /\ "from" \notin DOMAIN QueryOf(i) => SentData(i).from = Undef
            /\ "to" \notin DOMAIN QueryOf(i) => SentData(i).to = Undef
            /\ \A k \in DOMAIN QueryOf(i) \ Paging : SentData(i)[k] = QueryOf(i)[k]

\* C5 witness: the query {count: "abc", skip: -1, type: "link"} was sent as
\* count 10, skip -1, type "link", from and to undefined.
C5_Witness ==
    \E i \in Invocations :
        /\ call[i] = [op |-> "fetchAll",
                      args |-> <<Obj([count |-> Str(<<"a", "b", "c">>), skip |-> Num(-1), type |-> Str(link)])>>]
        /\ pc[i] = "pending"
        /\ SentData(i) = [count |-> Num(10), skip |-> Num(-1), type |-> Str(link),
                          from |-> Undef, to |-> Undef]

\* C6 as stated: the count and skip that fetchAll sends are non-negative
\* integers; for integer inputs, negative ones too, sent count >= 0 and sent
\* skip >= 0.
C6_PagingNonNegative ==
    \A i \in Invocations :
        call[i].op = "fetchAll" =>
            \A f \in {"count", "skip"} :
                Get(QueryOf(i), f).t = "number"
                    => SentData(i)[f].t = "number" /\ SentData(i)[f].v >= 0

Negative(n) ==
    \/ n.t = "number" /\ n.v < 0
    \/ n.t = "decimal" /\ n.m < 0
    \/ n.t = "infinity" /\ n.sign < 0

\* C6 amended: the count and skip that fetchAll sends are numbers (never NaN,
\* never a string); each is an integer when the numeric value of the input is
\* an integer or the input has none, and non-negative unless that numeric
\* value is negative; a negative numeric value is sent as it is, without a
\* range check.
C6_PagingNumbersUnclamped ==
    \A i \in Invocations :
        call[i].op = "fetchAll" =>
            \A f \in {"count", "skip"} :
                LET n == ToNumber(Get(QueryOf(i), f)) IN
                /\ SentData(i)[f].t \in {"number", "decimal", "infinity"}
                /\ n.t \in {"nan", "number"} => SentData(i)[f].t = "number" /\ SentData(i)[f].v \in Int
                /\ ~Negative(n) => ~Negative(SentData(i)[f])
                /\ Negative(n) => SentData(i)[f] = n

\* C6 witness: count "-1" and skip -2 were sent as -1 and -2.
C6_Witness ==
    \E i \in Invocations :
        /\ call[i].op = "fetchAll"
        /\ Get(QueryOf(i), "count") = Str(<<"-", "1">>)
        /\ Get(QueryOf(i), "skip") = Num(-2)
        /\ awaits[i] # 0
        /\ SentData(i).count = Num(-1)
        /\ SentData(i).skip = Num(-2)

IdOf(i) == call[i].args[1]
MissingId(x) == x = Undef \/ x = Str(<<>>)
ById(id) == resourceUrl \o <<"/">> \o id.v

\* C7: fetch, cancel, edit and notify with an empty or undefined id reject
\* with the missing-identifier error and make no transport call; with a
\* non-empty id (and non-null params for edit) they make GET base/id,
\* POST base/id/cancel, PATCH base/id with the params, and
\* POST base/id/notify_by/medium.
C7_IdRequired ==
    \A i \in Invocations :
        /\ call[i].op \in {"fetch", "cancel", "edit", "notify"} /\ MissingId(IdOf(i))
               => LocallyRejected(i, MISSING_ID_ERROR)
        /\ call[i].op = "fetch" /\ NonEmptyString(IdOf(i))
               => IssuedOnly(i, "GET", [url |-> ById(IdOf(i))])
        /\ call[i].op = "cancel" /\ NonEmptyString(IdOf(i))
               => IssuedOnly(i, "POST", [url |-> ById(IdOf(i)) \o <<"/", "c", "a", "n", "c", "e", "l">>])
        /\ call[i].op = "edit" /\ NonEmptyString(IdOf(i)) /\ call[i].args[2] \notin {Null, Undef}
               => IssuedOnly(i, "PATCH", [url |-> ById(IdOf(i)), data |-> call[i].args[2]])
        /\ call[i].op = "notify" /\ NonEmptyString(IdOf(i)) /\ call[i].args[2].t = "string"
               => IssuedOnly(i, "POST",
                             [url |-> ById(IdOf(i)) \o <<"/", "n", "o", "t", "i", "f", "y", "_", "b", "y", "/">>
                                          \o call[i].args[2].v])

\* C7 witness: a fetch with the empty string as id was rejected with the
\* missing-identifier error before any transport call.
C7_Witness ==
    \E i \in Invocations :
        /\ call[i] = [op |-> "fetch", args |-> <<Str(<<>>)>>]
        /\ LocallyRejected(i, MISSING_ID_ERROR)

EndsWith(s, suffix) ==
    Len(s) >= Len(suffix) /\ SubSeq(s, Len(s) - Len(suffix) + 1, Len(s)) = suffix

\* C8: every URL that notify sends to the transport ends in /notify_by/sms or
\* /notify_by/email: notify posts only for one of these two mediums.
C8_NotifyMediumChecked ==
    \A k \in 1..Len(requests) :
        call[requests[k].inv].op = "notify" =>
            \/ EndsWith(requests[k].request.url, <<"/", "n", "o", "t", "i", "f", "y", "_", "b", "y", "/">> \o sms)
            \/ EndsWith(requests[k].request.url, <<"/", "n", "o", "t", "i", "f", "y", "_", "b", "y", "/">> \o email)

\* C10: edit checks the id before the params: a non-empty id with null or
\* undefined params rejects with the mandatory-field error naming "Params"
\* and makes no PATCH; a missing id with missing params rejects with the
\* missing-identifier error.
C10_EditIdBeforeParams ==
    \A i \in Invocations :
        call[i].op = "edit" =>
            /\ NonEmptyString(IdOf(i)) /\ call[i].args[2] \in {Null, Undef}
                   => LocallyRejected(i, FIELD_MANDATORY_ERROR("Params"))
            /\ MissingId(IdOf(i)) /\ call[i].args[2] \in {Null, Undef}
                   => LocallyRejected(i, MISSING_ID_ERROR)

\* C10 witness: edit(undefined, undefined) was rejected with the
\* missing-identifier error.
C10_Witness ==
    \E i \in Invocations :
        /\ call[i] = [op |-> "edit", args |-> <<Undef, Undef>>]
        /\ LocallyRejected(i, MISSING_ID_ERROR)

\* C9, in every state: an invocation has made at most one transport call,
\* none when it was rejected locally; the call it made is the one its own
\* arguments ask for; its caller sees exactly the transport's settlement of
\* that call; invocations with equal arguments hold the promises of
\* different calls.
C9_State ==
    /\ Len(replies) = Len(requests)
    /\ \A i \in Invocations :
        /\ Cardinality(RequestsOf(i)) <= 1
        /\ pc[i] = "idle" => RequestsOf(i) = {} /\ outcome[i] = NoOutcome
        /\ awaits[i] = 0 => RequestsOf(i) = {}
        /\ awaits[i] # 0 => RequestsOf(i) = {awaits[i]} /\ OutcomeIsReply(i)
        /\ call[i].op = "fetch" /\ awaits[i] # 0
               => requests[awaits[i]].request = [url |-> ById(IdOf(i))]
    /\ \A i, j \in Invocations : i # j /\ awaits[i] # 0 => awaits[i] # awaits[j]

\* C9, in every step: the transport log only grows and a settlement is
\* final (nothing is retried or replaced); a call by one invocation changes
\* nothing of another; an invocation is settled only by the settlement of its
\* own call, with that settlement, and no call is made then.
C9_Step ==
    /\ Len(requests') >= Len(requests)
    /\ SubSeq(requests', 1, Len(requests)) = requests
    /\ \A k \in 1..Len(replies) : replies[k] # NoReply => replies'[k] = replies[k]
    /\ \A i \in Invocations :
        /\ pc[i] = "settled" => pc'[i] = "settled" /\ outcome'[i] = outcome[i]
        /\ pc[i] # "idle" => call'[i] = call[i] /\ awaits'[i] = awaits[i] /\ RequestsOf(i)' = RequestsOf(i)
        /\ pc[i] = "idle" /\ pc'[i] # "idle"
               => \A j \in Invocations \ {i} :
                      /\ pc'[j] = pc[j] /\ call'[j] = call[j]
                      /\ outcome'[j] = outcome[j] /\ awaits'[j] = awaits[j]
        /\ pc[i] = "pending" /\ pc'[i] = "settled"
               => /\ replies[awaits[i]] = NoReply
                  /\ outcome'[i] = replies'[awaits[i]]
                  /\ requests' = requests

\* C9: in any interleaving of concurrent invocations each makes at most one
\* transport call (none when rejected locally), a transport failure reaches
\* its caller unchanged and is not retried, and what an invocation sends and
\* gets depends on its own arguments and its own transport response only.
C9_Independent == []C9_State /\ [][C9_Step]_vars

\* C9 witness: two concurrent fetches of the same id each made their own GET;
\* the transport failed the first and resolved the second, and each caller
\* got the settlement of its own call.
C9_Witness ==
    /\ call[1] = [op |-> "fetch", args |-> <<Str(inv_1)>>]
    /\ call[2] = [op |-> "fetch", args |-> <<Str(inv_1)>>]
    /\ awaits[1] # awaits[2]
    /\ outcome[1] = Rejected(TransportError)
    /\ outcome[2] = Resolved(Obj([id |-> Str(inv_1)]))

====
